---- MODULE Spec2Model ----
(***************************************************************************)
(* pykern.pkconfig: layered configuration resolution.                      *)
(*                                                                         *)
(* Python strings are modelled as sequences of atoms.  An atom is a run of *)
(* characters that the program never looks inside ("pkg", "MOD", "c1") or  *)
(* one of the characters it does look at: "_" "." ":" "{" "}" "%".         *)
(* Joining, splitting, upper-casing, sorting and str.format are computed   *)
(* on these sequences.                                                     *)
(***************************************************************************)
EXTENDS Integers, Sequences, FiniteSets, TLC

VARIABLES
    environ,        \* os.environ: variable name -> string
    base_modules,   \* <pkg>.base_pkconfig modules: package -> channel -> nested dict
    home_files,     \* ~/.<pkg>_pkconfig.py files:    package -> channel -> nested dict
    _load_path,     \* pkconfig._load_path (the same list object as LOAD_PATH_DEFAULT)
    _raw_values,    \* pkconfig._raw_values: NoneObj or Key string -> [v, parts]
    _parsed_values, \* pkconfig._parsed_values: NoneObj or Key string -> value
    cfg,            \* pkconfig.cfg
    last,           \* what the last call did and returned
    loaded,         \* the sources as they were read when _raw_values was last computed,
                    \* and the load path before and after
    hist,           \* init calls, loads and resolved leaves since the process started
                    \* or the state was reset
    it,             \* one run of the while loop of _resolve_value, statement by statement
    mg              \* one call of _values_flatten: its arguments and its outcome

vars == <<environ, base_modules, home_files, _load_path, _raw_values,
          _parsed_values, cfg, last, loaded, hist, it, mg>>

(***************************************************************************)
(* Atoms and strings                                                       *)
(***************************************************************************)

\* The atoms in ASCII order; no atom is a prefix of another, so comparing two
\* strings atom by atom is comparing them character by character.
AtomOrder ==
    << "%", ".", "1", ":", "CHANNEL", "FOO", "ITEMS", "LOAD", "MOD", "N", "OPTS",
       "PATH", "PKCONFIG", "PKG", "PYKERN", "SUB", "X", "Y", "_",
       "a", "b", "c1", "channel", "d1", "default", "dev", "foo", "items",
       "load", "mod", "n", "opts", "path", "pkconfig", "pkg", "prod", "pykern",
       "sub", "x", "y", "{", "}" >>

AtomRanks == [a \in {AtomOrder[i] : i \in 1..Len(AtomOrder)} |->
                 CHOOSE i \in 1..Len(AtomOrder) : AtomOrder[i] = a]
AtomRank(a) == AtomRanks[a]

UpperAtoms == {"CHANNEL", "FOO", "ITEMS", "LOAD", "MOD", "N", "OPTS", "PATH",
               "PKCONFIG", "PKG", "PYKERN", "SUB", "X", "Y"}
LowerAtoms == {"a", "b", "c1", "channel", "d1", "default", "dev", "foo", "items",
               "load", "mod", "n", "opts", "path", "pkconfig", "pkg", "prod",
               "pykern", "sub", "x", "y"}
\* atoms made of letters and digits, beginning with a letter
WordAtoms == UpperAtoms \cup LowerAtoms
\* atoms of one character
OneCharAtoms == {"%", ".", "1", ":", "N", "X", "Y", "_", "a", "b", "n", "x", "y",
                 "{", "}"}

\* str.upper() on one atom
UpperAtom(a) ==
    CASE a = "channel" -> "CHANNEL" [] a = "foo" -> "FOO" [] a = "items" -> "ITEMS"
      [] a = "load" -> "LOAD" [] a = "mod" -> "MOD" [] a = "n" -> "N"
      [] a = "opts" -> "OPTS" [] a = "path" -> "PATH" [] a = "pkconfig" -> "PKCONFIG"
      [] a = "pkg" -> "PKG" [] a = "pykern" -> "PYKERN" [] a = "sub" -> "SUB"
      [] a = "x" -> "X" [] a = "y" -> "Y" [] a = "a" -> "A" [] a = "b" -> "B"
      [] a = "c1" -> "C1" [] a = "d1" -> "D1" [] a = "default" -> "DEFAULT"
      [] a = "dev" -> "DEV" [] a = "prod" -> "PROD"
      [] OTHER -> a

\* str.upper()
Upper(s) == [i \in 1..Len(s) |-> UpperAtom(s[i])]

\* sep.join(parts)
RECURSIVE Join(_, _)
Join(parts, sep) ==
    IF parts = <<>> THEN <<>>
    ELSE IF Len(parts) = 1 THEN parts[1]
    ELSE parts[1] \o <<sep>> \o Join(Tail(parts), sep)

\* s.split(sep)
RECURSIVE Split(_, _)
Split(s, sep) ==
    IF \A i \in 1..Len(s) : s[i] # sep THEN <<s>>
    ELSE LET i == CHOOSE j \in 1..Len(s) :
                      s[j] = sep /\ \A h \in 1..(j - 1) : s[h] # sep
         IN <<SubSeq(s, 1, i - 1)>> \o Split(SubSeq(s, i + 1, Len(s)), sep)

\* a < b for strings, as Python compares them
RECURSIVE StrLess(_, _)
StrLess(a, b) ==
    IF b = <<>> THEN FALSE
    ELSE IF a = <<>> THEN TRUE
    ELSE IF a[1] = b[1] THEN StrLess(Tail(a), Tail(b))
    ELSE AtomRank(a[1]) < AtomRank(b[1])

\* A variant of sorted(S): the largest string first
RECURSIVE SortedDescending(_)
SortedDescending(S) ==
    IF S = {} THEN <<>>
    ELSE LET m == CHOOSE x \in S : \A y \in S \ {x} : StrLess(y, x)
         IN <<m>> \o SortedDescending(S \ {m})

\* sorted(S) for a set of strings
RECURSIVE Sorted(_)
Sorted(S) ==
    IF S = {} THEN <<>>
    ELSE LET m == CHOOSE x \in S : \A y \in S \ {x} : StrLess(x, y)
         IN <<m>> \o Sorted(S \ {m})

\* s.startswith(p)
StartsWith(s, p) == Len(p) <= Len(s) /\ SubSeq(s, 1, Len(p)) = p

\* The elements of a sequence
Range(f) == {f[i] : i \in DOMAIN f}

\* KEY_RE = '^[a-z][a-z0-9_]*[a-z0-9]$', IGNORECASE: .search(s) is not None
KEY_RE(s) ==
    /\ Len(s) >= 1
    /\ s[1] \in WordAtoms
    /\ s[Len(s)] \in WordAtoms \cup {"1"}
    /\ \A i \in 1..Len(s) : s[i] \in WordAtoms \cup {"1", "_"}
    /\ (Len(s) >= 2 \/ s[1] \notin OneCharAtoms)

(***************************************************************************)
(* Values                                                                  *)
(***************************************************************************)

\* A Python value: [k |-> kind, v |-> content].  Contents: a string for str,
\* Verbatim and int (its digits); a sequence of strings for list; a sequence of
\* <<relative path, value>> pairs for a mapping; <<>> for None.
NoneObj == [k |-> "none", v |-> <<>>]
StrObj(s) == [k |-> "str", v |-> s]
\* class Verbatim(str, object)
Verbatim(s) == [k |-> "verb", v |-> s]
IntObj(s) == [k |-> "int", v |-> s]
ListObj(l) == [k |-> "list", v |-> l]
Mapping(m) == [k |-> "dict", v |-> m]

\* isinstance(x, _string_types): Verbatim is a str
IsString(x) == x.k \in {"str", "verb"}
IsVerbatim(x) == x.k = "verb"
IsList(x) == x.k = "list"
IsNone(x) == x.k = "none"

\* class _Key(str, object): the str value and the parts it was made of
_Key(parts) == [s |-> Upper(Join(parts, "_")), parts |-> parts]

(***************************************************************************)
(* str.format                                                              *)
(***************************************************************************)

\* repr() of a list of strings: ['c1', 'd1']
RECURSIVE ReprItems(_)
ReprItems(l) ==
    IF l = <<>> THEN <<>>
    ELSE <<"'">> \o l[1] \o <<"'">>
         \o (IF Len(l) > 1 THEN <<",", " ">> ELSE <<>>) \o ReprItems(Tail(l))

\* format(x, ''): what a replacement field naming x is replaced by.
\* Verbatim.__format__ raises AssertionError.
FormatValue(x) ==
    CASE x.k = "str" -> [ok |-> TRUE, v |-> x.v, err |-> ""]
      [] x.k = "verb" -> [ok |-> FALSE, v |-> <<>>, err |-> "AssertionError"]
      [] x.k = "none" -> [ok |-> TRUE, v |-> <<"None">>, err |-> ""]
      [] x.k = "int" -> [ok |-> TRUE, v |-> x.v, err |-> ""]
      [] x.k = "list" ->
            [ok |-> TRUE, v |-> <<"[">> \o ReprItems(x.v) \o <<"]">>, err |-> ""]
      [] OTHER -> [ok |-> TRUE, v |-> <<"<OrderedMapping>">>, err |-> ""]

\* One replacement field {name}: the keyword argument of that name, formatted.
\* An empty or numeric name is positional (there are no positional arguments);
\* a name with "." is an attribute lookup on the argument.
FormatField(name, kw) ==
    IF name = <<>> \/ name[1] = "1"
    THEN [ok |-> FALSE, v |-> <<>>, err |-> "IndexError"]
    ELSE LET arg == Split(name, ".")[1]
         IN IF arg = <<>>
            THEN [ok |-> FALSE, v |-> <<>>, err |-> "IndexError"]
            ELSE IF arg \notin DOMAIN kw
            THEN [ok |-> FALSE, v |-> <<>>, err |-> "KeyError"]
            ELSE IF arg # name
            THEN [ok |-> FALSE, v |-> <<>>, err |-> "AttributeError"]
            ELSE FormatValue(kw[arg])

\* s.format(**kw): literal text is copied, "{{" and "}}" give one brace, {name}
\* is replaced once; what is put in is not scanned again by the same call.
RECURSIVE Format(_, _)
Format(s, kw) ==
    IF s = <<>> THEN [ok |-> TRUE, v |-> <<>>, err |-> ""]
    ELSE IF s[1] = "{" /\ Len(s) >= 2 /\ s[2] = "{"
    THEN LET r == Format(SubSeq(s, 3, Len(s)), kw)
         IN IF r.ok THEN [r EXCEPT !.v = <<"{">> \o r.v] ELSE r
    ELSE IF s[1] = "}" /\ Len(s) >= 2 /\ s[2] = "}"
    THEN LET r == Format(SubSeq(s, 3, Len(s)), kw)
         IN IF r.ok THEN [r EXCEPT !.v = <<"}">> \o r.v] ELSE r
    ELSE IF s[1] = "}"
    THEN [ok |-> FALSE, v |-> <<>>, err |-> "ValueError"]
    ELSE IF s[1] = "{"
    THEN IF \A j \in 2..Len(s) : s[j] # "}"
         THEN [ok |-> FALSE, v |-> <<>>, err |-> "ValueError"]
         ELSE LET j == CHOOSE i \in 2..Len(s) :
                           s[i] = "}" /\ \A h \in 2..(i - 1) : s[h] # "}"
                  name == SubSeq(s, 2, j - 1)
              IN IF "{" \in Range(name)
                 THEN [ok |-> FALSE, v |-> <<>>, err |-> "ValueError"]
                 ELSE LET f == FormatField(name, kw)
                          r == Format(SubSeq(s, j + 1, Len(s)), kw)
                      IN IF ~f.ok THEN f
                         ELSE IF ~r.ok THEN r
                         ELSE [r EXCEPT !.v = f.v \o r.v]
    ELSE LET r == Format(Tail(s), kw)
         IN IF r.ok THEN [r EXCEPT !.v = <<s[1]>> \o r.v] ELSE r

(***************************************************************************)
(* Flattening and merging                                                  *)
(*                                                                         *)
(* A nested dict is given as the sequence of its leaves in iteration       *)
(* order, each [path |-> the dict keys leading to it, v |-> the value].    *)
(* A flat dict maps a Key string to [v |-> value, parts |-> the parts of   *)
(* the key object stored in the dict].                                     *)
(***************************************************************************)

\* v = ...; rest: the rest of a function body after a local variable is assigned
With(v, rest(_)) == rest(v)

\* The empty dict
EmptyDict == [x \in {} |-> NoneObj]

\* d[k] = v for a dict modelled as a function
DictSet(d, k, v) == [x \in DOMAIN d \cup {k} |-> IF x = k THEN v ELSE d[x]]

\* The concatenation of a sequence of sequences
RECURSIVE Flat(_)
Flat(ss) == IF ss = <<>> THEN <<>> ELSE ss[1] \o Flat(Tail(ss))

\* The key _flatten_keys makes at depth j of a leaf's path:
\* _Key(key_parts + k.split('.')), key_parts being the parts of the level above
KeyAt(path, j) == _Key(Flat([i \in 1..j |-> Split(path[i], ".")]))

\* A variant of _flatten_keys for one leaf that does not look for the key in res
FlattenLeafUnchecked(e, res) ==
    LET n == Len(e.path)
    IN IF \E j \in 1..n : ~KEY_RE(KeyAt(e.path, j).s)
       THEN [ok |-> FALSE, res |-> res, err |-> "invalid key"]
       ELSE [ok |-> TRUE, err |-> "",
             res |-> DictSet(res, KeyAt(e.path, n).s,
                             [v |-> e.v, parts |-> KeyAt(e.path, n).parts])]

\* _flatten_keys for one leaf: at every level the key must match KEY_RE and
\* must not be in res; the leaf is stored under the key of its last level.
FlattenLeaf(e, res) ==
    LET n == Len(e.path)
        Bad(j) == ~KEY_RE(KeyAt(e.path, j).s) \/ KeyAt(e.path, j).s \in DOMAIN res
    IN IF \E j \in 1..n : Bad(j)
       THEN LET j == CHOOSE i \in 1..n : Bad(i) /\ \A h \in 1..(i - 1) : ~Bad(h)
            IN [ok |-> FALSE, res |-> res,
                err |-> IF ~KEY_RE(KeyAt(e.path, j).s)
                        THEN "invalid key" ELSE "duplicate key"]
       ELSE [ok |-> TRUE, err |-> "",
             res |-> DictSet(res, KeyAt(e.path, n).s,
                             [v |-> e.v, parts |-> KeyAt(e.path, n).parts])]

\* _flatten_keys([], values, res)
RECURSIVE _flatten_keys(_, _)
_flatten_keys(values, res) ==
    IF values = <<>> THEN [ok |-> TRUE, err |-> "", res |-> res]
    ELSE With(FlattenLeaf(values[1], res), LAMBDA r :
            IF r.ok THEN _flatten_keys(Tail(values), r.res) ELSE r)

\* A variant of the merge in which the value already in base is kept
MergeValueKeepsBase(b, n) ==
    IF IsList(b) \/ IsList(n)
    THEN IF IsNone(b) \/ IsNone(n)
         THEN [ok |-> TRUE, v |-> n, err |-> ""]
         ELSE IF IsList(b) /\ IsList(n)
         THEN [ok |-> TRUE, v |-> ListObj(n.v \o b.v), err |-> ""]
         ELSE [ok |-> FALSE, v |-> n, err |-> "type mismatch"]
    ELSE [ok |-> TRUE, v |-> b, err |-> ""]

\* A variant of the merge in which None on either side clears the value
MergeValueNoneClears(b, n) ==
    IF IsList(b) \/ IsList(n)
    THEN IF IsNone(b) \/ IsNone(n)
         THEN [ok |-> TRUE, v |-> NoneObj, err |-> ""]
         ELSE IF IsList(b) /\ IsList(n)
         THEN [ok |-> TRUE, v |-> ListObj(n.v \o b.v), err |-> ""]
         ELSE [ok |-> FALSE, v |-> n, err |-> "type mismatch"]
    ELSE [ok |-> TRUE, v |-> n, err |-> ""]

\* A variant of the merge in which a list replaces a scalar that is in base
MergeValueScalarGivesWay(b, n) ==
    IF IsList(b) \/ IsList(n)
    THEN IF IsNone(b) \/ IsNone(n)
         THEN [ok |-> TRUE, v |-> n, err |-> ""]
         ELSE IF IsList(b) /\ IsList(n)
         THEN [ok |-> TRUE, v |-> ListObj(n.v \o b.v), err |-> ""]
         ELSE IF IsList(n)
         THEN [ok |-> TRUE, v |-> n, err |-> ""]
         ELSE [ok |-> FALSE, v |-> n, err |-> "type mismatch"]
    ELSE [ok |-> TRUE, v |-> n, err |-> ""]

\* The body of the loop of _values_flatten for a key that is in base:
\* the value stored for base value b and new value n
MergeValue(b, n) ==
    IF IsList(b) \/ IsList(n)
    THEN IF IsNone(b) \/ IsNone(n)
         THEN [ok |-> TRUE, v |-> n, err |-> ""]
         ELSE IF IsList(b) /\ IsList(n)
         THEN [ok |-> TRUE, v |-> ListObj(n.v \o b.v), err |-> ""]
         ELSE [ok |-> FALSE, v |-> n, err |-> "type mismatch"]
    ELSE [ok |-> TRUE, v |-> n, err |-> ""]

\* for k in sorted(new_values.keys()): ... base[k] = n
\* (an existing key keeps the key object that is already in the dict)
RECURSIVE MergeKeys(_, _, _)
MergeKeys(base, new_values, keys) ==
    IF keys = <<>> THEN [ok |-> TRUE, err |-> "", base |-> base]
    ELSE LET k == keys[1]
             n == new_values[k].v
         IN IF k \in DOMAIN base
            THEN LET m == MergeValue(base[k].v, n)
                 IN IF m.ok
                    THEN MergeKeys(DictSet(base, k, [base[k] EXCEPT !.v = m.v]),
                                   new_values, Tail(keys))
                    ELSE [ok |-> FALSE, err |-> m.err, base |-> base]
            ELSE MergeKeys(DictSet(base, k, new_values[k]), new_values, Tail(keys))

\* _values_flatten(base, new)
_values_flatten(base, new) ==
    With(_flatten_keys(new, EmptyDict), LAMBDA f :
        IF ~f.ok THEN [ok |-> FALSE, err |-> f.err, base |-> base]
        ELSE MergeKeys(base, f.res, Sorted(DOMAIN f.res)))

(***************************************************************************)
(* Declarations and parsers                                                *)
(***************************************************************************)

\* A param tuple (default, parser, docstring) as _Declaration keeps it.  The
\* parsers are the types str, int, list and dict, and "pn", a function of the
\* declaring module decorated with parse_none.
Decl(default, parser) == [default |-> default, parser |-> parser, required |-> FALSE]
\* class Required(tuple, object): (None,) + args
Required(parser) == [default |-> NoneObj, parser |-> parser, required |-> TRUE]

\* hasattr(decl.parser, _PARSE_NONE_ATTR)
HasParseNone(parser) == parser = "pn"

\* decl.parser(x) for the parsers _resolve_value calls
Parse(parser, x) ==
    CASE parser = "str" ->
            IF IsList(x)
            THEN [ok |-> TRUE, v |-> StrObj(<<"[">> \o ReprItems(x.v) \o <<"]">>), err |-> ""]
            ELSE IF IsNone(x) THEN [ok |-> TRUE, v |-> StrObj(<<"None">>), err |-> ""]
            ELSE [ok |-> TRUE, v |-> StrObj(x.v), err |-> ""]
      [] parser = "int" ->
            IF x.k = "int" \/ (IsString(x) /\ x.v = <<"1">>)
            THEN [ok |-> TRUE, v |-> IntObj(x.v), err |-> ""]
            ELSE IF IsString(x) THEN [ok |-> FALSE, v |-> NoneObj, err |-> "ValueError"]
            ELSE [ok |-> FALSE, v |-> NoneObj, err |-> "TypeError"]
      [] OTHER ->
            IF IsNone(x) THEN [ok |-> TRUE, v |-> StrObj(<<"unset">>), err |-> ""]
            ELSE IF IsString(x) THEN [ok |-> TRUE, v |-> StrObj(x.v), err |-> ""]
            ELSE [ok |-> TRUE, v |-> x, err |-> ""]

(***************************************************************************)
(* Resolvers                                                               *)
(***************************************************************************)

\* Most substitutions of one interpolation loop the model follows
MaxSubst == 6

\* A variant of the loop condition without the test for Verbatim
WhileCondAnyString(res, seen) == IsString(res) /\ res.v \notin seen

\* A variant of the loop condition that never lets the loop run
WhileCondNever(res, seen) == FALSE

\* The condition of the while loop of _resolve_value
WhileCond(res, seen) == IsString(res) /\ ~IsVerbatim(res) /\ res.v \notin seen

\* The loop of _resolve_value: seen[res] = 1; res = res.format(**_parsed_values),
\* followed for at most MaxSubst substitutions ("still looping" beyond that).
RECURSIVE Interpolate(_, _, _, _)
Interpolate(res, seen, kw, n) ==
    IF ~WhileCond(res, seen) THEN [ok |-> TRUE, v |-> res, err |-> ""]
    ELSE IF n >= MaxSubst THEN [ok |-> FALSE, v |-> res, err |-> "still looping"]
    ELSE LET f == Format(res.v, kw)
         IN IF f.ok THEN Interpolate(StrObj(f.v), seen \cup {res.v}, kw, n + 1)
            ELSE [ok |-> FALSE, v |-> res, err |-> f.err]

\* The value _resolve_value starts from: the raw value, else the default
PickValue(key, decl, raw) ==
    IF key \in DOMAIN raw THEN [ok |-> TRUE, v |-> raw[key].v, err |-> ""]
    ELSE IF decl.required
    THEN [ok |-> FALSE, v |-> NoneObj, err |-> "config value missing and is required"]
    ELSE [ok |-> TRUE, v |-> decl.default, err |-> ""]

\* What _resolve_value does with the interpolated value: None is returned as
\* it is unless the parser has the parse_none attribute
ParseOrNone(decl, x) ==
    IF IsNone(x) /\ ~HasParseNone(decl.parser)
    THEN [ok |-> TRUE, v |-> NoneObj, err |-> "", called |-> FALSE, arg |-> NoneObj]
    ELSE LET r == Parse(decl.parser, x)
         IN [ok |-> r.ok, v |-> r.v, err |-> r.err, called |-> TRUE, arg |-> x]

\* _resolve_value(key, decl): picked is the value before interpolation, called
\* and arg say whether the parser was called and with what
_resolve_value(key, decl, raw, parsed) ==
    With(PickValue(key, decl, raw), LAMBDA p :
    IF ~p.ok
    THEN [ok |-> FALSE, v |-> NoneObj, err |-> p.err, got |-> FALSE,
          picked |-> NoneObj, called |-> FALSE, arg |-> NoneObj]
    ELSE
    With(Interpolate(p.v, {}, parsed, 0), LAMBDA i :
    IF ~i.ok
    THEN [ok |-> FALSE, v |-> NoneObj, err |-> i.err, got |-> TRUE,
          picked |-> p.v, called |-> FALSE, arg |-> NoneObj]
    ELSE
    With(ParseOrNone(decl, i.v), LAMBDA r :
    [ok |-> r.ok, v |-> r.v, err |-> r.err, got |-> TRUE,
     picked |-> p.v, called |-> r.called, arg |-> r.arg])))

\* A variant of the last line of _resolve_list: res + _raw_values[key]
ResPlusRaw(raw_list, res) == ListObj(res.v \o raw_list.v)

\* The last line of _resolve_list: _raw_values[key] + res
RawPlusRes(raw_list, res) == ListObj(raw_list.v \o res.v)

\* _resolve_list(key, decl).  The message of the assert for a required value
\* names k, which is not defined in this function: NameError.
_resolve_list(key, decl, raw) ==
    LET res == IF IsNone(decl.default) \/ decl.default.v = <<>>
               THEN ListObj(<<>>) ELSE decl.default
        out(ok, v, err) == [ok |-> ok, v |-> v, err |-> err, got |-> FALSE,
                            picked |-> NoneObj, called |-> FALSE, arg |-> NoneObj]
    IN IF ~IsList(res) THEN out(FALSE, NoneObj, "default must be a list")
       ELSE IF key \notin DOMAIN raw
       THEN IF decl.required THEN out(FALSE, NoneObj, "NameError")
            ELSE out(TRUE, res, "")
       ELSE IF ~IsList(raw[key].v)
       THEN IF IsNone(raw[key].v) THEN out(TRUE, NoneObj, "")
            ELSE out(FALSE, NoneObj, "value must be a list or None")
       ELSE out(TRUE, RawPlusRes(raw[key].v, res), "")

\* reversed(l)
Reversed(l) == [i \in 1..Len(l) |-> l[Len(l) + 1 - i]]

\* r[ki] = v in the nested result of _resolve_dict, kept as a function from the
\* path of each leaf: whatever was below the path is replaced
NestedSet(res, path, v) ==
    [q \in {x \in DOMAIN res : ~StartsWith(x, path)} \cup {path} |->
        IF q = path THEN v ELSE res[q]]

\* The loop of _resolve_dict over the raw keys that are key or begin with key_
RECURSIVE FoldDict(_, _, _, _, _)
FoldDict(res, keys, key, nparts, raw) ==
    IF keys = <<>> THEN [ok |-> TRUE, v |-> res, err |-> ""]
    ELSE LET k == keys[1]
             parts == raw[k].parts
             key_prefix == key \o <<"_">>
             kp == SubSeq(parts, nparts + 1, Len(parts) - 1)
             path == IF Len(parts) = 1
                     THEN <<SubSeq(parts[1], Len(key_prefix) + 1, Len(parts[1]))>>
                     ELSE kp \o <<parts[Len(parts)]>>
         IN IF k # key /\ ~StartsWith(k, key_prefix)
            THEN FoldDict(res, Tail(keys), key, nparts, raw)
            ELSE IF parts = <<>>
            THEN [ok |-> FALSE, v |-> res, err |-> "AttributeError"]
            ELSE IF \E j \in 1..(Len(path) - 1) : SubSeq(path, 1, j) \in DOMAIN res
            THEN [ok |-> FALSE, v |-> res, err |-> "type collision"]
            ELSE FoldDict(NestedSet(res, path, raw[k].v), Tail(keys), key, nparts, raw)

\* _resolve_dict(key, decl): no check of decl.required is made
_resolve_dict(key, nparts, decl, raw) ==
    LET res == IF IsNone(decl.default) THEN EmptyDict ELSE decl.default.v
        out(ok, v, err) == [ok |-> ok, v |-> v, err |-> err, got |-> FALSE,
                            picked |-> NoneObj, called |-> FALSE, arg |-> NoneObj]
    IN IF ~IsNone(decl.default) /\ decl.default.k # "dict"
       THEN out(FALSE, NoneObj, "default must be a dict")
       ELSE With(FoldDict(res, Reversed(Sorted(DOMAIN raw)), key, nparts, raw), LAMBDA f :
               IF f.ok THEN out(TRUE, Mapping(f.v), "") ELSE out(FALSE, NoneObj, f.err))

\* _resolver(decl)(key, decl)
Resolve(key, nparts, decl, raw, parsed) ==
    IF decl.parser = "dict" THEN _resolve_dict(key, nparts, decl, raw)
    ELSE IF decl.parser = "list" THEN _resolve_list(key, decl, raw)
    ELSE _resolve_value(key, decl, raw, parsed)

\* _iter_decls(decls, res): the leaves in sorted key order; each resolved value
\* goes into the result and into _parsed_values.  What an exception leaves
\* behind in _parsed_values stays.  leaf records, for each key, the declaration,
\* the outcome, whether a value was picked and which (got, picked), and whether
\* the parser was called and with what (called, arg).
RECURSIVE _iter_decls(_, _, _, _, _, _)
_iter_decls(keys, decls, raw, parsed, res, leaf) ==
    IF keys = <<>>
    THEN [ok |-> TRUE, err |-> "", parsed |-> parsed, res |-> res, leaf |-> leaf]
    ELSE With(keys[1], LAMBDA k :
         With(Resolve(k, Len(decls[k].parts), decls[k].v, raw, parsed), LAMBDA r :
         With(DictSet(leaf, k, [decl |-> decls[k].v, ok |-> r.ok, v |-> r.v,
                                err |-> r.err, got |-> r.got, picked |-> r.picked,
                                called |-> r.called, arg |-> r.arg]), LAMBDA l :
            IF r.ok
            THEN _iter_decls(Tail(keys), decls, raw, DictSet(parsed, k, r.v),
                             DictSet(res, k, r.v), l)
            ELSE [ok |-> FALSE, err |-> r.err, parsed |-> parsed, res |-> res,
                  leaf |-> l])))

(***************************************************************************)
(* Load path, environment, coalescing                                      *)
(***************************************************************************)

THIS_PACKAGE == <<"pykern">>
LOAD_PATH_SEP == ":"
CHANNEL_ENV_NAME == <<"PYKERN", "_", "PKCONFIG", "_", "CHANNEL">>
LOAD_PATH_ENV_NAME == <<"PYKERN", "_", "PKCONFIG", "_", "LOAD", "_", "PATH">>
VALID_CHANNELS == <<(<<"dev">>), (<<"alpha">>), (<<"beta">>), (<<"prod">>)>>
CHANNEL_DEFAULT == VALID_CHANNELS[1]
\* The name of this module, sys.modules[__name__].__name__
PKCONFIG_MODULE == <<"pykern", ".", "pkconfig">>

\* A module global that is None or a dict
Unset == [set |-> FALSE, d |-> EmptyDict]
Set(d) == [set |-> TRUE, d |-> d]
\* A variant of the test in which no value counts as computed
NeverComputed(g) == FALSE

\* "if _raw_values", "assert not _raw_values": None and {} are false
Truthy(g) == g.set /\ DOMAIN g.d # {}

\* _load_path_parser(value)
_load_path_parser(value) ==
    IF value.v = <<>> THEN <<>>
    ELSE IF IsString(value) THEN Split(value.v, LOAD_PATH_SEP)
    ELSE value.v

\* A variant of the loop of append_load_path that appends nothing
AppendNothing(lp, ps) == lp

\* for p in ...: if not p in _load_path: _load_path.append(p)
RECURSIVE AppendMissing(_, _)
AppendMissing(lp, ps) ==
    IF ps = <<>> THEN lp
    ELSE AppendMissing(IF ps[1] \in Range(lp) THEN lp ELSE Append(lp, ps[1]),
                       Tail(ps))

\* append_load_path(load_path).  prev = _load_path names the list object that
\* the loop appends to, so prev is the list after the loop as well.
append_load_path(lp, raw, load_path) ==
    LET after == AppendMissing(lp, _load_path_parser(load_path))
        prev == after
    IN IF prev # after /\ Truthy(raw)
       THEN [ok |-> FALSE, lp |-> after,
             err |-> "Values coalesced before load_path is initialized"]
       ELSE [ok |-> TRUE, lp |-> after, err |-> ""]

\* os.getenv(name, default)
getenv(env, name, default) ==
    IF name \in DOMAIN env THEN StrObj(env[name]) ELSE default

\* A variant of _clean_environ that keeps '' as it is
CleanEnvironKeepsEmpty(env) ==
    [k \in {x \in DOMAIN env : KEY_RE(x)} |-> StrObj(env[k])]

\* _clean_environ(): the variables whose name matches KEY_RE, '' as None
_clean_environ(env) ==
    [k \in {x \in DOMAIN env : KEY_RE(x)} |->
        IF Len(env[k]) > 0 THEN StrObj(env[k]) ELSE NoneObj]

\* A flat dict with string keys as the nested dict _flatten_keys is given
AsNested(d) ==
    LET ks == Sorted(DOMAIN d)
    IN [i \in 1..Len(ks) |-> [path |-> <<ks[i]>>, v |-> d[ks[i]]]]

\* The two loops of _coalesce_values over _load_path: a package without the
\* module (ImportError) or without the home file is skipped; a module without
\* a function for the channel raises AttributeError
RECURSIVE LoadModules(_, _, _, _)
LoadModules(values, pkgs, modules, channel) ==
    IF pkgs = <<>> THEN [ok |-> TRUE, err |-> "", base |-> values]
    ELSE IF pkgs[1] \notin DOMAIN modules
    THEN LoadModules(values, Tail(pkgs), modules, channel)
    ELSE IF channel \notin DOMAIN modules[pkgs[1]]
    THEN [ok |-> FALSE, err |-> "AttributeError", base |-> values]
    ELSE With(_values_flatten(values, modules[pkgs[1]][channel]), LAMBDA r :
            IF r.ok THEN LoadModules(r.base, Tail(pkgs), modules, channel) ELSE r)

\* _init_parsed_values(env): r = '^(' + '|'.join(_load_path) + ')_$', IGNORECASE
_init_parsed_values(env, lp) ==
    LET r_search(k) == \E i \in 1..Len(lp) : Upper(k) = Upper(lp[i] \o <<"_">>)
        kept == {k \in DOMAIN env : ~r_search(k)}
    IN [s \in {Upper(k) : k \in kept} |->
            env[CHOOSE k \in kept : Upper(k) = s]]

\* The start of init for module m: the root package must be in _load_path, and
\* the declarations, nested under the parts of the module name, are flattened
InitDecls(m, kwargs, lp) ==
    LET mnp == Split(m, ".")
        nested == [i \in 1..Len(kwargs) |->
                      [path |-> mnp \o kwargs[i].path, v |-> kwargs[i].v]]
    IN IF mnp[1] \notin Range(lp)
       THEN [ok |-> FALSE, err |-> "module root not in load_path", decls |-> EmptyDict]
       ELSE With(_flatten_keys(nested, EmptyDict), LAMBDA f :
               [ok |-> f.ok, err |-> f.err, decls |-> f.res])

\* The declarations of pkconfig itself
PkconfigKwargs ==
    << [path |-> <<(<<"load", "_", "path">>)>>, v |-> Required("list")],
       [path |-> <<(<<"channel">>)>>, v |-> Required("str")] >>

\* values[name] = v with a plain str as the key: a key already in the dict
\* keeps its key object, a new one has no parts
SetPlain(d, name, v) ==
    DictSet(d, name, [v |-> v, parts |-> IF name \in DOMAIN d THEN d[name].parts ELSE <<>>])

\* _coalesce_values().  loaded says whether the sources were merged by this
\* call; the load path keeps what append_load_path added also when a later
\* statement raises; _raw_values is assigned before the init of pkconfig's own
\* parameters, which sets cfg when it returns.
_coalesce_values(env, base, home, lp, raw, parsed, c) ==
    IF Truthy(raw)
    THEN [ok |-> TRUE, err |-> "", lp |-> lp, raw |-> raw, parsed |-> parsed,
          cfg |-> c, loaded |-> FALSE, leaf |-> EmptyDict]
    ELSE
    With(append_load_path(lp, raw, getenv(env, LOAD_PATH_ENV_NAME, ListObj(lp))).lp,
         LAMBDA path :
    With(getenv(env, CHANNEL_ENV_NAME, StrObj(CHANNEL_DEFAULT)).v, LAMBDA channel :
    With([ok |-> FALSE, err |-> "invalid channel", lp |-> path, raw |-> raw,
          parsed |-> parsed, cfg |-> c, loaded |-> FALSE, leaf |-> EmptyDict],
         LAMBDA raised :
    IF channel \notin Range(VALID_CHANNELS) THEN raised
    ELSE
    With(LoadModules(EmptyDict, path, base, channel), LAMBDA b :
    IF ~b.ok THEN [raised EXCEPT !.err = b.err]
    ELSE
    With(LoadModules(b.base, path, home, channel), LAMBDA h :
    IF ~h.ok THEN [raised EXCEPT !.err = h.err]
    ELSE
    With(_clean_environ(env), LAMBDA cenv :
    With(_values_flatten(h.base, AsNested(cenv)), LAMBDA e :
    IF ~e.ok THEN [raised EXCEPT !.err = e.err]
    ELSE
    With(SetPlain(SetPlain(e.base, CHANNEL_ENV_NAME, StrObj(channel)),
                  LOAD_PATH_ENV_NAME, ListObj(path)), LAMBDA values :
    With(InitDecls(PKCONFIG_MODULE, PkconfigKwargs, path), LAMBDA d :
    With(_iter_decls(Sorted(DOMAIN d.decls), d.decls, values,
                     _init_parsed_values(cenv, path), EmptyDict, EmptyDict),
         LAMBDA n :
    [ok |-> d.ok /\ n.ok, err |-> IF d.ok THEN n.err ELSE d.err, lp |-> path,
     raw |-> Set(values), parsed |-> Set(n.parsed),
     cfg |-> IF d.ok /\ n.ok THEN Set(n.res) ELSE c,
     loaded |-> TRUE, leaf |-> n.leaf]))))))))))

\* pkinspect.is_caller_main()
MAIN_MODULE == <<"__main__">>

\* init(**kwargs) called by module m: what it returns or raises, and the module
\* globals after it.  tried says whether _coalesce_values went to the sources.
init(m, kwargs, env, base, home, lp, raw, parsed, c) ==
    With([ok |-> TRUE, err |-> "", ret |-> "None", res |-> EmptyDict,
          leaf |-> EmptyDict, lp |-> lp, raw |-> raw, parsed |-> parsed, cfg |-> c,
          loaded |-> FALSE, tried |-> FALSE, cfg_leaf |-> EmptyDict], LAMBDA same :
    IF m = MAIN_MODULE THEN same
    ELSE
    With(InitDecls(m, kwargs, lp), LAMBDA d :
    IF ~d.ok THEN [same EXCEPT !.ok = FALSE, !.err = d.err, !.ret = "raise"]
    ELSE
    With(_coalesce_values(env, base, home, lp, raw, parsed, c), LAMBDA co :
    With([same EXCEPT !.lp = co.lp, !.raw = co.raw, !.parsed = co.parsed,
                      !.cfg = co.cfg, !.loaded = co.loaded, !.tried = ~Truthy(raw),
                      !.cfg_leaf = co.leaf], LAMBDA after :
    IF ~co.ok THEN [after EXCEPT !.ok = FALSE, !.err = co.err, !.ret = "raise"]
    ELSE
    With(_iter_decls(Sorted(DOMAIN d.decls), d.decls, co.raw.d, co.parsed.d,
                     EmptyDict, EmptyDict), LAMBDA n :
    [after EXCEPT !.ok = n.ok, !.err = n.err,
                  !.ret = IF n.ok THEN "params" ELSE "raise",
                  !.res = n.res, !.leaf = n.leaf, !.parsed = Set(n.parsed)])))))

(***************************************************************************)
(* The programs, files and environments explored                           *)
(***************************************************************************)

Leaf(path, v) == [path |-> path, v |-> v]
\* {'pkg': {'mod': {name: v}}}
PkgMod(name, v) == Leaf(<<(<<"pkg">>), (<<"mod">>), name>>, v)
\* a config module or file with the same function for every channel
Module(entries) == [ch \in Range(VALID_CHANNELS) |-> entries]
\* a config module that defines dev() only
DevOnly(entries) == [ch \in {CHANNEL_DEFAULT} |-> entries]
NoModules == [p \in {} |-> Module(<<>>)]
Pykern(mod) == [p \in {<<"pykern">>} |-> mod]
Pkg(mod) == [p \in {<<"pkg">>} |-> mod]
NoEnv == [k \in {} |-> <<>>]

KEY_X == <<"PKG", "_", "MOD", "_", "X">>
KEY_Y == <<"PKG", "_", "MOD", "_", "Y">>
KEY_ITEMS == <<"PKG", "_", "MOD", "_", "ITEMS">>
KEY_FOO == <<"FOO">>

\* os.environ, the base_pkconfig modules and the home files of one run
World(env, base, home) == [environ |-> env, base_modules |-> base, home_files |-> home]

\* Both packages set pkg.mod.x, in their base modules and in their home files
BaseX ==
    Pykern(Module(<<PkgMod(<<"x">>, StrObj(<<"bk">>))>>))
      @@ Pkg(Module(<<PkgMod(<<"x">>, StrObj(<<"bp">>))>>))
HomeX ==
    Pykern(Module(<<PkgMod(<<"x">>, StrObj(<<"hk">>))>>))
      @@ Pkg(Module(<<PkgMod(<<"x">>, StrObj(<<"hp">>))>>))

\* Strings with replacement fields
X_REFERS_TO_Y == <<"a", "{", "pkg", "_", "mod", "_", "y", "}">>
Y_REFERS_TO_X == <<"a", "{", "PKG", "_", "MOD", "_", "X", "}">>
V_FOO == <<"v", "{", "FOO", "}">>
W_FOO == <<"w", "{", "FOO", "}", "{", "{", "}", "}">>

BaseXRefersToY == Pkg(Module(<<PkgMod(<<"x">>, StrObj(X_REFERS_TO_Y))>>))
BaseYRefersToX == Pkg(Module(<<PkgMod(<<"y">>, StrObj(Y_REFERS_TO_X))>>))
BaseItems == Pkg(Module(<<PkgMod(<<"items">>, ListObj(<<(<<"c1">>)>>))>>))

\* Two packages give pkg.mod.x through different roots: {'pkg': {'mod': {'x':
\* ...}}} in pykern's module, {'pkg.mod': {'x': ...}} in pkg's
BaseTwoRoots ==
    Pykern(Module(<<PkgMod(<<"x">>, StrObj(<<"bk">>))>>))
      @@ Pkg(Module(<<Leaf(<<(<<"pkg", ".", "mod">>), (<<"x">>)>>, StrObj(<<"bp">>))>>))
\* One module gives pkg.mod.x twice: {'pkg': {'mod': {'x': ...}}, 'PKG_MOD_X': ...}
BaseTwoPaths ==
    Pkg(Module(<<PkgMod(<<"x">>, StrObj(<<"bp">>)),
                 Leaf(<<KEY_X>>, StrObj(<<"dup">>))>>))
\* pkg.sub.n is the replacement field of pkg.mod.x
KEY_N == <<"PKG", "_", "SUB", "_", "N">>
N_REFERS_TO_X == <<"{", "PKG", "_", "MOD", "_", "X", "}">>
SubN(v) == Leaf(<<(<<"pkg">>), (<<"sub">>), (<<"n">>)>>, v)
BaseNRefersToX == Pkg(Module(<<SubN(StrObj(N_REFERS_TO_X))>>))
\* and pkg.mod.x is a Verbatim with a replacement field
BaseNRefersToVerbatimX ==
    Pkg(Module(<<PkgMod(<<"x">>, Verbatim(V_FOO)), SubN(StrObj(N_REFERS_TO_X))>>))

\* Two environment variables whose names differ in case only
EnvTwoCases == (<<"foo">> :> <<"a">>) @@ (KEY_FOO :> <<"z">>)

\* The runs in which values are resolved
ResolveWorlds ==
    { World(env, base, home) :
        env \in {NoEnv, (KEY_X :> <<"ev">>), (KEY_X :> <<>>)},
        base \in {NoModules, BaseX}, home \in {NoModules, HomeX} }
    \cup
    { World((KEY_FOO :> <<"z">>),
            Pkg(Module(<<PkgMod(<<"x">>, Verbatim(V_FOO))>>)), NoModules),
      World((KEY_FOO :> <<"z">>), BaseX,
            Pkg(Module(<<PkgMod(<<"x">>, Verbatim(W_FOO))>>))),
      World((KEY_X :> <<>>),
            Pkg(Module(<<PkgMod(<<"x">>, ListObj(<<(<<"c1">>)>>))>>)), NoModules),
      World(NoEnv, BaseXRefersToY, NoModules),
      World(NoEnv, BaseYRefersToX, NoModules),
      World(NoEnv, BaseItems, NoModules),
      World(NoEnv,
            Pykern(Module(<<PkgMod(<<"items">>, ListObj(<<(<<"c0">>)>>))>>)) @@ BaseItems,
            Pkg(Module(<<PkgMod(<<"items">>, NoneObj)>>))),
      World(NoEnv, BaseItems,
            Pkg(Module(<<PkgMod(<<"items">>, ListObj(<<(<<"h1">>)>>)),
                         Leaf(<<(<<"pkg", ".", "mod">>), (<<"opts">>), (<<"sub">>)>>,
                              StrObj(<<"o">>))>>))),
      World((KEY_ITEMS :> <<"ev">>) @@ (<<"FOO", "%", "%">> :> <<"a">>),
            NoModules, NoModules),
      World((KEY_ITEMS :> <<>>), BaseItems, NoModules),
      World(NoEnv,
            Pykern(Module(<<Leaf(<<(<<"pykern">>), (<<"pkconfig">>), (<<"channel">>)>>,
                                 StrObj(<<"prod">>)),
                            PkgMod(<<"x">>, IntObj(<<"1">>))>>)),
            NoModules),
      World((CHANNEL_ENV_NAME :> <<"prod">>),
            Pkg(DevOnly(<<PkgMod(<<"x">>, StrObj(<<"bp">>))>>)), HomeX),
      World((CHANNEL_ENV_NAME :> <<>>), BaseX, NoModules),
      World((LOAD_PATH_ENV_NAME :> <<"pkg">>) @@ (KEY_X :> <<"ev">>), BaseX, HomeX),
      World(NoEnv, BaseTwoRoots, NoModules),
      World(NoEnv, BaseTwoPaths, NoModules),
      World(NoEnv, BaseX, BaseTwoPaths),
      World(EnvTwoCases, NoModules, NoModules),
      World(NoEnv, BaseNRefersToX, NoModules),
      World((KEY_X :> <<>>), BaseNRefersToX, NoModules),
      World((KEY_FOO :> <<"z">>), BaseNRefersToVerbatimX, NoModules) }

\* The runs in which the process is followed through resets and changes
ProcessWorlds ==
    { World((KEY_X :> <<"ev">>), BaseX, HomeX),
      World((CHANNEL_ENV_NAME :> <<"prod">>),
            Pkg(DevOnly(<<PkgMod(<<"x">>, StrObj(<<"bp">>))>>)), NoModules),
      World((LOAD_PATH_ENV_NAME :> <<"pkg">>), BaseX, NoModules) }

\* A declaration of parameter name
Param(name, decl) == [path |-> <<name>>, v |-> decl]

\* The modules that call init and the declarations they make
PKG_MOD == <<"pkg", ".", "mod">>
PYKERN_SUB == <<"pykern", ".", "sub">>
PKG_SUB == <<"pkg", ".", "sub">>

CallerXY ==
    [m |-> PKG_MOD, kwargs |-> <<Param(<<"x">>, Decl(StrObj(<<"default">>), "str")),
                                 Param(<<"y">>, Decl(StrObj(<<"b">>), "str"))>>]
CallerYX ==
    [m |-> PKG_MOD, kwargs |-> <<Param(<<"x">>, Decl(StrObj(<<"b">>), "str")),
                                 Param(<<"y">>, Decl(StrObj(<<"default">>), "str"))>>]
CallerSub ==
    [m |-> PYKERN_SUB, kwargs |-> <<Param(<<"x">>, Decl(IntObj(<<"1">>), "int"))>>]
CallerLater ==
    [m |-> PKG_SUB, kwargs |-> <<Param(<<"n">>, Decl(StrObj(<<"dn">>), "str"))>>]
CallerMain ==
    [m |-> MAIN_MODULE, kwargs |-> <<Param(<<"x">>, Decl(StrObj(<<"default">>), "str"))>>]

Callers ==
    { CallerXY, CallerYX, CallerSub, CallerLater, CallerMain,
      [m |-> PKG_MOD, kwargs |-> <<Param(<<"x">>, Required("str"))>>],
      [m |-> PKG_MOD, kwargs |-> <<Param(<<"x">>, Decl(StrObj(<<"default">>), "pn"))>>],
      [m |-> PKG_MOD, kwargs |-> <<Param(<<"items">>, Decl(ListObj(<<(<<"d1">>)>>), "list"))>>],
      [m |-> PKG_MOD, kwargs |-> <<Param(<<"items">>, Required("list"))>>],
      [m |-> PKG_MOD, kwargs |-> <<Param(<<"opts">>, Required("dict"))>>] }

ProcessCallers == {CallerXY, CallerSub, CallerMain}

\* What entry point modules pass to append_load_path
LoadPathArgs == {StrObj(<<"pkg">>), ListObj(<<(<<"pykern">>), (<<"pkg">>)>>)}

\* The strings the while loop of _resolve_value starts from, and other values
LoopStarts ==
    { StrObj(<<"plain">>), StrObj(<<"{", "FOO", "}">>), StrObj(<<"a", "{", "FOO", "}">>),
      StrObj(<<"{", "{", "FOO", "}", "}">>), StrObj(<<"{", "foo", "}">>),
      StrObj(<<"}">>), StrObj(<<"{", "PKG", "_", "MOD", "_", "X", "}">>),
      StrObj(<<>>), Verbatim(V_FOO), NoneObj, IntObj(<<"1">>) }

\* _parsed_values when the loop runs: resolved leaves, and the environment
\* variables as _init_parsed_values copied them
ParsedSpaces ==
    { EmptyDict,
      (KEY_FOO :> StrObj(<<"z">>)),
      (KEY_FOO :> StrObj(<<"z">>)) @@ (KEY_X :> IntObj(<<"1">>)),
      (KEY_FOO :> NoneObj) @@ (KEY_X :> Verbatim(V_FOO)),
      (KEY_FOO :> StrObj(<<"{", "ITEMS", "}">>)) @@ (<<"ITEMS">> :> StrObj(<<"{", "OPTS", "}">>))
        @@ (<<"OPTS">> :> StrObj(<<"end">>)),
      (KEY_FOO :> StrObj(<<"{", "ITEMS", "}">>)) @@ (<<"ITEMS">> :> StrObj(<<"{", "OPTS", "}">>))
        @@ (<<"OPTS">> :> StrObj(<<"{", "FOO", "}">>)),
      (KEY_FOO :> StrObj(<<"{", "FOO", "}">>)),
      (KEY_FOO :> StrObj(<<"x", "{", "FOO", "}">>)) }

\* The values _values_flatten is given for one key
MergeValues ==
    { NoneObj, StrObj(<<"a">>), StrObj(<<>>), Verbatim(<<"b">>), IntObj(<<"1">>),
      ListObj(<<>>), ListObj(<<(<<"c1">>)>>), ListObj(<<(<<"d1">>), (<<"c1">>)>>) }

\* base: nothing under the key, or one of the values
MergeBases ==
    {EmptyDict} \cup {(KEY_X :> [v |-> b, parts |-> <<"pkg", "mod", "x">>]) : b \in MergeValues}

\* The sources merged one after the other: each gives pkg.mod.x and pkg.mod.y
\* a value or leaves it out
AssocSources ==
    { x \o y :
        x \in {<<>>} \cup { <<PkgMod(<<"x">>, v)>> :
                  v \in {NoneObj, StrObj(<<"a">>), ListObj(<<(<<"c1">>)>>),
                         ListObj(<<(<<"d1">>)>>)} },
        y \in {<<>>} \cup { <<PkgMod(<<"y">>, v)>> :
                  v \in {NoneObj, StrObj(<<"b">>), ListObj(<<(<<"d1">>)>>)} } }

(***************************************************************************)
(* The process                                                             *)
(***************************************************************************)

\* Most init calls counted since the start or the last reset
MaxInits == 2

\* Most init calls of a run in which values are resolved
MaxCalls == 2

IdleLoop == [pc |-> "idle", res |-> NoneObj, seen |-> {}, n |-> 0, err |-> ""]

IdleMerge ==
    [pc |-> "idle", base |-> EmptyDict, new |-> <<>>,
     out |-> [ok |-> TRUE, err |-> "", base |-> EmptyDict]]

NoCall ==
    [op |-> "none", m |-> <<>>, kwargs |-> <<>>, arg |-> NoneObj, ok |-> TRUE,
     err |-> "", ret |-> "None", res |-> EmptyDict, leaf |-> EmptyDict,
     cfg_leaf |-> EmptyDict, loaded |-> FALSE, tried |-> FALSE,
     raw_before |-> FALSE, lp_before |-> <<>>, resolved_before |-> EmptyDict]

NotLoaded ==
    [environ |-> NoEnv, base_modules |-> NoModules, home_files |-> NoModules,
     lp |-> <<>>, lp_before |-> <<>>]

NoHist == [inits |-> 0, loads |-> 0, load_at |-> 0, resolved |-> EmptyDict]

\* r[kp] = _resolver(d)(k, d) of _iter_decls: the value of every leaf of one
\* call that a resolver returned
ResolvedIn(leaf) == [k \in {x \in DOMAIN leaf : leaf[x].ok} |-> leaf[k].v]

\* The module globals as the import of pkconfig leaves them
Globals ==
    /\ _load_path = <<THIS_PACKAGE>>
    /\ _raw_values = Unset
    /\ _parsed_values = Unset
    /\ cfg = Unset

\* Nothing has been called
NothingCalled ==
    /\ last = NoCall
    /\ loaded = NotLoaded
    /\ hist = NoHist

InWorld(w) ==
    /\ environ = w.environ
    /\ base_modules = w.base_modules
    /\ home_files = w.home_files

Init ==
    /\ \E w \in ProcessWorlds : InWorld(w)
    /\ Globals
    /\ NothingCalled
    /\ it = IdleLoop
    /\ mg = IdleMerge

\* An entry point module calls append_load_path(arg)
AppendLoadPath(arg) ==
    \E r \in {append_load_path(_load_path, _raw_values, arg)} :
       /\ _load_path' = r.lp
       /\ last' = [NoCall EXCEPT !.op = "append_load_path", !.arg = arg, !.ok = r.ok,
                                 !.err = r.err, !.ret = IF r.ok THEN "None" ELSE "raise",
                                 !.raw_before = Truthy(_raw_values),
                                 !.lp_before = _load_path]
       /\ UNCHANGED <<environ, base_modules, home_files, _raw_values, _parsed_values,
                      cfg, loaded, hist, it, mg>>

\* Module c.m calls init(**c.kwargs)
InitCall(c) ==
    \E r \in {init(c.m, c.kwargs, environ, base_modules, home_files, _load_path,
                   _raw_values, _parsed_values, cfg)},
       i \in {IF hist.inits < MaxInits THEN hist.inits + 1 ELSE MaxInits} :
       /\ _load_path' = r.lp
       /\ _raw_values' = r.raw
       /\ _parsed_values' = r.parsed
       /\ cfg' = r.cfg
       /\ last' = [NoCall EXCEPT !.op = "init", !.m = c.m, !.kwargs = c.kwargs,
                                 !.ok = r.ok, !.err = r.err, !.ret = r.ret,
                                 !.res = r.res, !.leaf = r.leaf,
                                 !.cfg_leaf = r.cfg_leaf, !.loaded = r.loaded,
                                 !.tried = r.tried,
                                 !.raw_before = Truthy(_raw_values),
                                 !.lp_before = _load_path,
                                 !.resolved_before = hist.resolved]
       /\ loaded' = IF r.loaded
                    THEN [environ |-> environ, base_modules |-> base_modules,
                          home_files |-> home_files, lp |-> r.lp,
                          lp_before |-> _load_path]
                    ELSE loaded
       /\ hist' = [inits |-> i,
                   loads |-> IF r.loaded THEN hist.loads + 1 ELSE hist.loads,
                   load_at |-> IF r.loaded /\ hist.loads = 0 THEN i ELSE hist.load_at,
                   resolved |-> ResolvedIn(r.leaf) @@ ResolvedIn(r.cfg_leaf)
                                  @@ hist.resolved]
       /\ UNCHANGED <<environ, base_modules, home_files, it, mg>>

\* reset_state_for_testing()
ResetStateForTesting ==
    /\ _raw_values' = Unset
    /\ last' = [NoCall EXCEPT !.op = "reset_state_for_testing",
                              !.raw_before = Truthy(_raw_values),
                              !.lp_before = _load_path]
    /\ hist' = NoHist
    /\ UNCHANGED <<environ, base_modules, home_files, _load_path, _parsed_values,
                   cfg, loaded, it, mg>>

\* The environment and the files change under the running process
LateEnv == (KEY_X :> <<"late">>)
LateHome == Pkg(Module(<<PkgMod(<<"x">>, StrObj(<<"latefile">>))>>))

Putenv ==
    /\ environ # LateEnv
    /\ environ' = LateEnv
    /\ UNCHANGED <<base_modules, home_files, _load_path, _raw_values, _parsed_values,
                   cfg, last, loaded, hist, it, mg>>

WriteHomeFile ==
    /\ home_files # LateHome
    /\ home_files' = LateHome
    /\ UNCHANGED <<environ, base_modules, _load_path, _raw_values, _parsed_values,
                   cfg, last, loaded, hist, it, mg>>

Next ==
    \/ \E arg \in LoadPathArgs : AppendLoadPath(arg)
    \/ \E c \in ProcessCallers : InitCall(c)
    \/ ResetStateForTesting
    \/ Putenv
    \/ WriteHomeFile

Spec == Init /\ [][Next]_vars

(***************************************************************************)
(* Resolution: a process that appends to the load path and calls init      *)
(***************************************************************************)

InitResolve ==
    /\ \E w \in ResolveWorlds : InWorld(w)
    /\ Globals
    /\ NothingCalled
    /\ it = IdleLoop
    /\ mg = IdleMerge

\* One of the first MaxCalls calls of init
BoundedInitCall(c) ==
    /\ hist.inits < MaxCalls
    /\ InitCall(c)

NextResolve ==
    \/ \E arg \in LoadPathArgs : AppendLoadPath(arg)
    \/ \E c \in Callers : BoundedInitCall(c)

SpecResolve == InitResolve /\ [][NextResolve]_vars

(***************************************************************************)
(* The while loop of _resolve_value, one statement at a time               *)
(***************************************************************************)

InitInterp ==
    /\ environ = NoEnv
    /\ base_modules = NoModules
    /\ home_files = NoModules
    /\ _load_path = <<THIS_PACKAGE>>
    /\ _raw_values = Unset
    /\ \E kw \in ParsedSpaces : _parsed_values = Set(kw)
    /\ cfg = Unset
    /\ NothingCalled
    /\ \E res \in LoopStarts : it = [IdleLoop EXCEPT !.pc = "while", !.res = res]
    /\ mg = IdleMerge

\* while isinstance(res, _string_types) and not isinstance(res, Verbatim)
\*     and not res in seen:
WhileTest ==
    /\ it.pc = "while"
    /\ it' = [it EXCEPT !.pc = IF WhileCond(it.res, it.seen) THEN "body" ELSE "done"]
    /\ UNCHANGED <<environ, base_modules, home_files, _load_path, _raw_values,
                   _parsed_values, cfg, last, loaded, hist, mg>>

\* seen[res] = 1; res = res.format(**_parsed_values)
WhileBody ==
    /\ it.pc = "body"
    /\ it.n < MaxSubst
    /\ \E f \in {Format(it.res.v, _parsed_values.d)} :
          it' = IF f.ok
                THEN [pc |-> "while", res |-> StrObj(f.v),
                      seen |-> it.seen \cup {it.res.v}, n |-> it.n + 1, err |-> ""]
                ELSE [it EXCEPT !.pc = "raised", !.seen = it.seen \cup {it.res.v},
                                !.err = f.err]
    /\ UNCHANGED <<environ, base_modules, home_files, _load_path, _raw_values,
                   _parsed_values, cfg, last, loaded, hist, mg>>

NextInterp == WhileTest \/ WhileBody

SpecInterp == InitInterp /\ [][NextInterp]_vars

(***************************************************************************)
(* _values_flatten on one key                                              *)
(***************************************************************************)

InitMerge ==
    /\ environ = NoEnv
    /\ base_modules = NoModules
    /\ home_files = NoModules
    /\ Globals
    /\ NothingCalled
    /\ it = IdleLoop
    /\ \E base \in MergeBases, n \in MergeValues :
          mg = [IdleMerge EXCEPT !.pc = "call", !.base = base,
                                 !.new = <<PkgMod(<<"x">>, n)>>]

\* _values_flatten(base, new)
ValuesFlatten ==
    /\ mg.pc = "call"
    /\ mg' = [mg EXCEPT !.pc = "returned", !.out = _values_flatten(mg.base, mg.new)]
    /\ UNCHANGED <<environ, base_modules, home_files, _load_path, _raw_values,
                   _parsed_values, cfg, last, loaded, hist, it>>

NextMerge == ValuesFlatten

SpecMerge == InitMerge /\ [][NextMerge]_vars

(***************************************************************************)
(* Three sources merged by _values_flatten: one after the other into an    *)
(* empty dict (seq), and the first followed by the merge of the other two  *)
(* (grp, then top)                                                         *)
(***************************************************************************)

\* values = {}
NothingMerged == [ok |-> TRUE, err |-> "", base |-> EmptyDict]

\* _values_flatten(values, new) after the calls that gave out: an exception
\* of an earlier call ends the sequence
ThenFlatten(out, new) == IF out.ok THEN _values_flatten(out.base, new) ELSE out

\* A flat dict of merged values as the dict a source returns
AsSource(d) == AsNested([k \in DOMAIN d |-> d[k].v])

InitAssoc ==
    /\ environ = NoEnv
    /\ base_modules = NoModules
    /\ home_files = NoModules
    /\ Globals
    /\ NothingCalled
    /\ it = IdleLoop
    /\ \E A \in AssocSources, B \in AssocSources, C \in AssocSources :
          mg = [pc |-> "assoc", step |-> 0, srcs |-> <<A, B, C>>,
                seq |-> NothingMerged, grp |-> NothingMerged, top |-> NothingMerged]

\* _values_flatten(values, A), then B, then C
MergeInSequence ==
    /\ mg.pc = "assoc"
    /\ mg.step \in 0..2
    /\ mg' = [mg EXCEPT !.step = @ + 1,
                        !.seq = ThenFlatten(mg.seq, mg.srcs[mg.step + 1])]
    /\ UNCHANGED <<environ, base_modules, home_files, _load_path, _raw_values,
                   _parsed_values, cfg, last, loaded, hist, it>>

\* _values_flatten(higher, B), then C, higher being an empty dict
MergeHigher ==
    /\ mg.pc = "assoc"
    /\ mg.step \in 3..4
    /\ mg' = [mg EXCEPT !.step = @ + 1,
                        !.grp = ThenFlatten(mg.grp, mg.srcs[mg.step - 1])]
    /\ UNCHANGED <<environ, base_modules, home_files, _load_path, _raw_values,
                   _parsed_values, cfg, last, loaded, hist, it>>

\* _values_flatten(values, A), then _values_flatten(values, higher)
MergeGrouped ==
    /\ mg.pc = "assoc"
    /\ mg.step \in 5..6
    /\ mg' = IF mg.step = 5
             THEN [mg EXCEPT !.step = 6, !.top = ThenFlatten(mg.top, mg.srcs[1])]
             ELSE [mg EXCEPT !.pc = "done",
                             !.top = IF mg.grp.ok
                                     THEN ThenFlatten(mg.top, AsSource(mg.grp.base))
                                     ELSE mg.grp]
    /\ UNCHANGED <<environ, base_modules, home_files, _load_path, _raw_values,
                   _parsed_values, cfg, last, loaded, hist, it>>

NextAssoc == MergeInSequence \/ MergeHigher \/ MergeGrouped

SpecAssoc == InitAssoc /\ [][NextAssoc]_vars

(***************************************************************************)
(* Properties                                                              *)
(***************************************************************************)

ScalarParsers == {"str", "int", "pn"}

\* The last call was an init that went as far as resolving leaves
Resolved == last.op = "init" /\ DOMAIN last.leaf # {}

\* The channel of the sources as they were read
LoadedChannel == getenv(loaded.environ, CHANNEL_ENV_NAME, StrObj(CHANNEL_DEFAULT)).v

\* The values the module or file of package p gives key
SetBy(mods, p, key) ==
    IF p \in DOMAIN mods /\ LoadedChannel \in DOMAIN mods[p]
    THEN {e.v : e \in {x \in Range(mods[p][LoadedChannel]) :
                          KeyAt(x.path, Len(x.path)).s = key}}
    ELSE {}

\* The position in the load path of the last package that sets key, or 0
LastSetting(mods, key) ==
    LET S == {i \in 1..Len(loaded.lp) : SetBy(mods, loaded.lp[i], key) # {}}
    IN IF S = {} THEN 0 ELSE CHOOSE i \in S : \A j \in S : j <= i

\* No module and no file gives key a list
SetToScalarsOnly(key) ==
    \A mods \in {loaded.base_modules, loaded.home_files} :
       \A i \in 1..Len(loaded.lp) :
          \A v \in SetBy(mods, loaded.lp[i], key) : ~IsList(v)

\* The value of key by the order of priority of the sources: the environment,
\* the home files from the last package to the first, the base modules from
\* the last package to the first, the default
ByPriority(key, default) ==
    IF key \in DOMAIN loaded.environ
    THEN IF loaded.environ[key] = <<>> THEN NoneObj ELSE StrObj(loaded.environ[key])
    ELSE IF LastSetting(loaded.home_files, key) > 0
    THEN CHOOSE v \in SetBy(loaded.home_files,
                            loaded.lp[LastSetting(loaded.home_files, key)], key) : TRUE
    ELSE IF LastSetting(loaded.base_modules, key) > 0
    THEN CHOOSE v \in SetBy(loaded.base_modules,
                            loaded.lp[LastSetting(loaded.base_modules, key)], key) : TRUE
    ELSE default

\* A value that str.format leaves as it is
NoBraces(x) == ~IsString(x) \/ IsVerbatim(x) \/ ("{" \notin Range(x.v) /\ "}" \notin Range(x.v))

\* C1: for a scalar leaf whose key no source sets to a list, the value picked
\* is the one of the source of highest priority that sets the key (environment
\* over home files over base modules, a later package of the load path over an
\* earlier one), the default only when no source sets it; a picked value
\* without replacement fields is what the parser is called with.
C1_HighestPrioritySourceWins ==
    last.op = "init" =>
       \A k \in DOMAIN last.leaf :
          (last.leaf[k].decl.parser \in ScalarParsers /\ SetToScalarsOnly(k)) =>
             /\ last.leaf[k].got =>
                   last.leaf[k].picked = ByPriority(k, last.leaf[k].decl.default)
             /\ ~last.leaf[k].got =>
                   /\ last.leaf[k].decl.required
                   /\ ByPriority(k, last.leaf[k].decl.default) = NoneObj
             /\ ( /\ last.leaf[k].got
                  /\ NoBraces(last.leaf[k].picked)
                  /\ (~IsNone(last.leaf[k].picked) \/ HasParseNone(last.leaf[k].decl.parser)) )
                => (last.leaf[k].called /\ last.leaf[k].arg = last.leaf[k].picked)

\* Both packages set x in base modules and home files, no environment variable:
\* the parser gets the value of the home file of the last package
C1_Witness ==
    /\ last.op = "init"
    /\ loaded.base_modules = BaseX
    /\ loaded.home_files = HomeX
    /\ loaded.environ = NoEnv
    /\ loaded.lp = <<(<<"pykern">>), (<<"pkg">>)>>
    /\ KEY_X \in DOMAIN last.leaf
    /\ last.leaf[KEY_X].called
    /\ last.leaf[KEY_X].arg = StrObj(<<"hp">>)

\* C2: once _raw_values is computed, append_load_path with a package that is
\* not in the load path raises, and the load path is what it was when
\* _raw_values was computed.
C2_AppendAfterLoadRaises ==
    ( /\ last.op = "append_load_path"
      /\ last.raw_before
      /\ \E p \in Range(_load_path_parser(last.arg)) : p \notin Range(last.lp_before) )
    => (~last.ok /\ _load_path = loaded.lp)

\* C3 as stated: once init has been called the sources have been merged exactly
\* once, by the first init call, and later init calls do not merge again.
C3_LoadedByFirstInit ==
    /\ hist.inits >= 1 => (hist.loads = 1 /\ hist.load_at = 1)
    /\ (last.op = "init" /\ hist.inits >= 2) => ~last.loaded

\* C3: between resets the sources are merged at most once, by the first init
\* call that gets to _coalesce_values and merges them without an error; from
\* then on _raw_values stays computed, no init call merges again, and scalar
\* leaves are picked from the sources as they were read then, whatever the
\* environment and the files are now.
C3_LoadedAtMostOnce ==
    /\ hist.loads <= 1
    /\ hist.loads = 1 => (Truthy(_raw_values) /\ hist.load_at >= 1)
    /\ (last.op = "init" /\ last.loaded) => (~last.raw_before /\ hist.loads = 1)
    /\ (last.op = "init" /\ last.raw_before) =>
          /\ ~last.loaded
          /\ \A k \in DOMAIN last.leaf :
                ( /\ last.leaf[k].decl.parser \in ScalarParsers
                  /\ SetToScalarsOnly(k)
                  /\ last.leaf[k].got )
                => last.leaf[k].picked = ByPriority(k, last.leaf[k].decl.default)

\* The second init call since the start returns the value the environment had
\* at the first, after the environment and the home file have changed
C3_Witness ==
    /\ last.op = "init"
    /\ last.raw_before
    /\ last.ret = "params"
    /\ hist.inits = 2
    /\ hist.loads = 1
    /\ environ = LateEnv
    /\ home_files = LateHome
    /\ loaded.environ # LateEnv
    /\ loaded.home_files # LateHome
    /\ KEY_X \in DOMAIN last.res
    /\ last.res[KEY_X] = StrObj(<<"ev">>)

\* No raw value is stored under key k or below it
NoRawUnder(k) ==
    \A r \in DOMAIN _raw_values.d : r # k /\ ~StartsWith(r, k \o <<"_">>)

\* C4: when init gets to a Required leaf, whatever its parser, and there is no
\* raw value for it, init raises the missing-required-value error.
C4_RequiredMissingRaises ==
    last.op = "init" =>
       \A k \in DOMAIN last.leaf :
          (last.leaf[k].decl.required /\ NoRawUnder(k)) =>
             (~last.ok /\ last.err = "config value missing and is required")

\* C5: the while loop of _resolve_value ends: it does not get to its body
\* again after MaxSubst substitutions.
C5_LoopEnds == it.pc = "body" => it.n < MaxSubst

\* init of pkg.mod was called with these declarations and resolved them from
\* what this base module sets, with no home file and no environment variable
ResolvedFrom(caller, base) ==
    /\ Resolved
    /\ last.m = caller.m
    /\ last.kwargs = caller.kwargs
    /\ loaded.environ = NoEnv
    /\ loaded.base_modules = base
    /\ loaded.home_files = NoModules
    /\ <<"pkg">> \in Range(loaded.lp)

\* C6 as stated: with x (default "default") and y (default "b") declared and
\* the base config setting x to "a{pkg_mod_y}", init returns y == "b" and
\* x == "ab".
C6_XRefersToY ==
    ResolvedFrom(CallerXY, BaseXRefersToY) =>
       /\ last.ok
       /\ last.res = (KEY_X :> StrObj(<<"a", "b">>)) @@ (KEY_Y :> StrObj(<<"b">>))

\* C6: that init raises KeyError, x being resolved before y and the keys of
\* _parsed_values being upper case; with x (default "b") and y (default
\* "default") declared and the base config setting y to "a{PKG_MOD_X}", init
\* returns x == "b" and y == "ab".
C6_YRefersToX ==
    /\ ResolvedFrom(CallerXY, BaseXRefersToY) =>
          (~last.ok /\ last.err = "KeyError" /\ last.res = EmptyDict)
    /\ ResolvedFrom(CallerYX, BaseYRefersToX) =>
          /\ last.ok
          /\ last.res = (KEY_X :> StrObj(<<"b">>)) @@ (KEY_Y :> StrObj(<<"a", "b">>))

C6_Witness ==
    /\ ResolvedFrom(CallerYX, BaseYRefersToX)
    /\ last.ret = "params"
    /\ last.leaf[KEY_Y].picked = StrObj(Y_REFERS_TO_X)
    /\ last.res[KEY_Y] = StrObj(<<"a", "b">>)

\* _values_flatten has returned or raised for a key that was in base, with a
\* list on at least one side
MergedWithList ==
    /\ mg.pc = "returned"
    /\ KEY_X \in DOMAIN mg.base
    /\ (IsList(mg.base[KEY_X].v) \/ IsList(mg.new[1].v))

\* C7 as stated: both lists give incoming ++ base, None on either side gives
\* None, anything else raises the type mismatch.
C7_NoneClears ==
    MergedWithList =>
       IF IsList(mg.base[KEY_X].v) /\ IsList(mg.new[1].v)
       THEN mg.out.ok /\ mg.out.base[KEY_X].v = ListObj(mg.new[1].v.v \o mg.base[KEY_X].v.v)
       ELSE IF IsNone(mg.base[KEY_X].v) \/ IsNone(mg.new[1].v)
       THEN mg.out.ok /\ mg.out.base[KEY_X].v = NoneObj
       ELSE ~mg.out.ok /\ mg.out.err = "type mismatch"

\* C7: both lists give incoming ++ base, None on either side gives the
\* incoming value (None only when the incoming value is None), anything else
\* raises the type mismatch.
C7_NoneGivesIncoming ==
    MergedWithList =>
       IF IsList(mg.base[KEY_X].v) /\ IsList(mg.new[1].v)
       THEN mg.out.ok /\ mg.out.base[KEY_X].v = ListObj(mg.new[1].v.v \o mg.base[KEY_X].v.v)
       ELSE IF IsNone(mg.base[KEY_X].v) \/ IsNone(mg.new[1].v)
       THEN mg.out.ok /\ mg.out.base[KEY_X].v = mg.new[1].v
       ELSE ~mg.out.ok /\ mg.out.err = "type mismatch"

\* A list merged into a key that base has as None
C7_Witness ==
    /\ MergedWithList
    /\ IsNone(mg.base[KEY_X].v)
    /\ mg.out.ok
    /\ mg.out.base[KEY_X].v = ListObj(<<(<<"c1">>)>>)

\* C8: a raw value that is a Verbatim is what the parser is called with,
\* whatever _parsed_values holds.
C8_VerbatimUnchanged ==
    last.op = "init" =>
       \A k \in DOMAIN last.leaf :
          ( /\ last.leaf[k].decl.parser \in ScalarParsers
            /\ last.leaf[k].got
            /\ IsVerbatim(last.leaf[k].picked) )
          => (last.leaf[k].called /\ last.leaf[k].arg = last.leaf[k].picked)

\* The Verbatim 'v{FOO}' with FOO in _parsed_values
C8_Witness ==
    /\ last.op = "init"
    /\ KEY_X \in DOMAIN last.leaf
    /\ KEY_X \in DOMAIN _raw_values.d
    /\ _raw_values.d[KEY_X].v = Verbatim(V_FOO)
    /\ KEY_FOO \in DOMAIN _parsed_values.d
    /\ last.leaf[KEY_X].called
    /\ last.leaf[KEY_X].arg = Verbatim(V_FOO)
    /\ last.res[KEY_X] = StrObj(V_FOO)

\* C9: a scalar leaf that init resolves and whose environment variable was ''
\* when the sources were read has the value None, whatever the default, the
\* base modules and the home files give; a parser without parse_none is not
\* called and init returns None for the leaf, a parser with it is called with
\* None.  (The channel of pkconfig itself is read with os.getenv before any
\* leaf is resolved: '' is not a valid channel and no leaf is resolved.)
C9_EmptyEnvIsNone ==
    last.op = "init" =>
       \A k \in DOMAIN last.leaf :
          ( /\ last.leaf[k].decl.parser \in ScalarParsers
            /\ k \in DOMAIN loaded.environ
            /\ loaded.environ[k] = <<>> )
          => /\ last.leaf[k].got
             /\ last.leaf[k].picked = NoneObj
             /\ IF HasParseNone(last.leaf[k].decl.parser)
                THEN last.leaf[k].called /\ last.leaf[k].arg = NoneObj
                ELSE /\ ~last.leaf[k].called
                     /\ last.leaf[k].ok
                     /\ k \in DOMAIN last.res
                     /\ last.res[k] = NoneObj

\* x has a default, both packages set it in base modules and home files, and
\* $PKG_MOD_X is ''
C9_Witness ==
    /\ last.op = "init"
    /\ last.kwargs = CallerXY.kwargs
    /\ loaded.environ = (KEY_X :> <<>>)
    /\ loaded.base_modules = BaseX
    /\ loaded.home_files = HomeX
    /\ loaded.lp = <<(<<"pykern">>), (<<"pkg">>)>>
    /\ last.ret = "params"
    /\ ~last.leaf[KEY_X].called
    /\ last.res[KEY_X] = NoneObj

\* C10: a list leaf with a list as its default: without a raw value the result
\* is the default; a raw list gives the raw list followed by the default; a
\* raw None gives None; any other raw value raises.  Default ['d1'] and base
\* config ['c1'] give ['c1', 'd1'].
C10_ListLeaf ==
    last.op = "init" =>
       \A k \in DOMAIN last.leaf :
          (last.leaf[k].decl.parser = "list" /\ IsList(last.leaf[k].decl.default)) =>
             /\ IF k \notin DOMAIN _raw_values.d
                THEN last.leaf[k].ok /\ last.leaf[k].v = last.leaf[k].decl.default
                ELSE IF IsList(_raw_values.d[k].v)
                THEN /\ last.leaf[k].ok
                     /\ last.leaf[k].v = ListObj(_raw_values.d[k].v.v
                                                   \o last.leaf[k].decl.default.v)
                ELSE IF IsNone(_raw_values.d[k].v)
                THEN last.leaf[k].ok /\ last.leaf[k].v = NoneObj
                ELSE ~last.leaf[k].ok /\ ~last.ok
             /\ ( /\ last.leaf[k].decl.default = ListObj(<<(<<"d1">>)>>)
                  /\ k \in DOMAIN _raw_values.d
                  /\ _raw_values.d[k].v = ListObj(<<(<<"c1">>)>>) )
                => last.res[k] = ListObj(<<(<<"c1">>), (<<"d1">>)>>)

\* items with default ['d1'] and the base config ['c1']
C10_Witness ==
    /\ last.op = "init"
    /\ loaded.base_modules = BaseItems
    /\ loaded.home_files = NoModules
    /\ loaded.environ = NoEnv
    /\ KEY_ITEMS \in DOMAIN last.res
    /\ last.leaf[KEY_ITEMS].decl.default = ListObj(<<(<<"d1">>)>>)
    /\ last.res[KEY_ITEMS] = ListObj(<<(<<"c1">>), (<<"d1">>)>>)

\* The channel an init call that goes to the sources reads them for
CallChannel == getenv(environ, CHANNEL_ENV_NAME, StrObj(CHANNEL_DEFAULT)).v

\* The Key a leaf of a source is stored under
LeafKey(e) == KeyAt(e.path, Len(e.path)).s

\* What the module or file of package p returns for the channel
SourceLeaves(mods, p) ==
    IF p \in DOMAIN mods /\ CallChannel \in DOMAIN mods[p]
    THEN mods[p][CallChannel] ELSE <<>>

\* The sources one load flattens, each by a call of its own
SourcesRead ==
    { SourceLeaves(mods, _load_path[i]) :
        mods \in {base_modules, home_files}, i \in 1..Len(_load_path) }
    \cup {AsNested(_clean_environ(environ))}

\* Two leaves of one source have the same Key
SameKeyPair(src) ==
    \E i, j \in 1..Len(src) : i # j /\ LeafKey(src[i]) = LeafKey(src[j])

\* A key on the path of a leaf of the source is the Key of another of its leaves
Collides(src) ==
    \E i, j \in 1..Len(src) :
       /\ i # j
       /\ \E l \in 1..Len(src[j].path) : KeyAt(src[j].path, l).s = LeafKey(src[i])

\* The channel is valid, every module and file has a function for it, every
\* key matches KEY_RE and no value is a list: flattening and merging the
\* sources can fail on a duplicate key only
CleanSources ==
    /\ CallChannel \in Range(VALID_CHANNELS)
    /\ \A mods \in {base_modules, home_files} :
          \A i \in 1..Len(_load_path) :
             _load_path[i] \in DOMAIN mods => CallChannel \in DOMAIN mods[_load_path[i]]
    /\ \A src \in SourcesRead :
          \A i \in 1..Len(src) :
             /\ ~IsList(src[i].v)
             /\ \A l \in 1..Len(src[i].path) : KEY_RE(KeyAt(src[i].path, l).s)

\* Two packages of the load path give the same Key by different paths
CrossPackagePair ==
    \E mods \in {base_modules, home_files} :
       \E i, j \in 1..Len(_load_path) :
          /\ i # j
          /\ \E m \in 1..Len(SourceLeaves(mods, _load_path[i])),
                n \in 1..Len(SourceLeaves(mods, _load_path[j])) :
                /\ SourceLeaves(mods, _load_path[i])[m].path
                      # SourceLeaves(mods, _load_path[j])[n].path
                /\ LeafKey(SourceLeaves(mods, _load_path[i])[m])
                      = LeafKey(SourceLeaves(mods, _load_path[j])[n])

\* C11 as stated: when two packages of the load path give a value for the same
\* Key by different nested paths, the init call that reads the sources raises
\* the duplicate key error.
C11_DuplicateAcrossPackages ==
    (last.op = "init" /\ last.tried /\ CleanSources /\ CrossPackagePair)
    => (~last.ok /\ last.err = "duplicate key")

\* C11: the duplicate key error comes from one source only.  The init call that
\* reads the sources raises it only when, within one module, file or the
\* environment, a key on the path of a leaf is the Key of another leaf, and it
\* does raise it when two leaves of one source have the same Key; the same Key
\* given by two packages is merged and raises nothing.
C11_DuplicateWithinOneSource ==
    (last.op = "init" /\ last.tried) =>
       /\ last.err = "duplicate key" => \E src \in SourcesRead : Collides(src)
       /\ (CleanSources /\ \E src \in SourcesRead : SameKeyPair(src))
             => (~last.ok /\ last.err = "duplicate key")
       /\ (CleanSources /\ CrossPackagePair /\ \A src \in SourcesRead : ~Collides(src))
             => (last.loaded /\ last.err # "duplicate key")

\* The module of pkg gives pkg.mod.x by two paths and the init call raises
C11_Witness ==
    /\ last.op = "init"
    /\ last.tried
    /\ base_modules = BaseTwoPaths
    /\ <<"pkg">> \in Range(_load_path)
    /\ ~last.ok
    /\ last.err = "duplicate key"

\* What a sequence of merges gives: the mapping of keys to values, or a failure
Outcome(out) ==
    IF out.ok THEN [ok |-> TRUE, d |-> [k \in DOMAIN out.base |-> out.base[k].v]]
    ELSE [ok |-> FALSE, d |-> EmptyDict]

\* The values source i gives key: one value, or none
Given(i, key) == {e.v : e \in {x \in Range(mg.srcs[i]) : LeafKey(x) = key}}

NoneFree(key) == \A i \in 1..3 : NoneObj \notin Given(i, key)
ListFree(key) == \A i \in 1..3 : \A v \in Given(i, key) : ~IsList(v)

\* The three sources give key the values a, b, c and either b is None between
\* two values one of which is a list, or c is None after a list and a scalar
NoneBreaks(key) ==
    \E a \in Given(1, key), b \in Given(2, key), c \in Given(3, key) :
       \/ IsNone(b) /\ ~IsNone(a) /\ ~IsNone(c) /\ (IsList(a) \/ IsList(c))
       \/ IsNone(c) /\ ~IsNone(a) /\ ~IsNone(b) /\ (IsList(a) # IsList(b))

RefersToEarlier(k, e) ==
    /\ e \in DOMAIN last.resolved_before
    /\ e \notin DOMAIN last.leaf
    /\ last.leaf[k].decl.parser \in ScalarParsers
    /\ last.leaf[k].got
    /\ last.leaf[k].picked = StrObj(<<"{">> \o e \o <<"}">>)
    /\ FormatValue(last.resolved_before[e]).ok

\* The string a replacement field naming leaf e is replaced by
StringOf(e) == StrObj(FormatValue(last.resolved_before[e]).v)

\* _parsed_values has, under its Key, the value of every leaf resolved since
\* the start or the last reset, and what the last init call returned
ParsedHasResolved ==
    /\ \A k \in DOMAIN hist.resolved :
          /\ _parsed_values.set
          /\ k \in DOMAIN _parsed_values.d
          /\ _parsed_values.d[k] = hist.resolved[k]
    /\ (last.op = "init" /\ last.ret = "params") =>
          \A k \in DOMAIN last.res :
             k \in DOMAIN _parsed_values.d /\ _parsed_values.d[k] = last.res[k]

\* C13 as stated: _parsed_values maps the Key of every leaf resolved so far to
\* its value, and a scalar of a later module whose raw value is the replacement
\* field of an earlier leaf goes to its parser as that leaf's value.
C13_LaterScalarGetsValue ==
    /\ ParsedHasResolved
    /\ last.op = "init" =>
          \A k \in DOMAIN last.leaf : \A e \in DOMAIN last.resolved_before :
             RefersToEarlier(k, e) =>
                (last.leaf[k].called /\ last.leaf[k].arg = StringOf(e))

\* C13: _parsed_values maps the Key of every leaf resolved so far to the value
\* last resolved for it, which is what init returned; a scalar of a later
\* module whose raw value is the replacement field of an earlier leaf goes to
\* its parser as the string of that leaf's value when that string has no
\* braces (a string with braces is formatted again).
C13_LaterScalarGetsPlainValue ==
    /\ ParsedHasResolved
    /\ last.op = "init" =>
          \A k \in DOMAIN last.leaf : \A e \in DOMAIN last.resolved_before :
             (RefersToEarlier(k, e) /\ NoBraces(StringOf(e))) =>
                (last.leaf[k].called /\ last.leaf[k].arg = StringOf(e))

\* pkg.mod resolved x to its default; pkg.sub, calling init after it, gets
\* that value for n, whose raw value is {PKG_MOD_X}
C13_Witness ==
    /\ last.op = "init"
    /\ last.m = PKG_SUB
    /\ last.ret = "params"
    /\ KEY_X \in DOMAIN last.resolved_before
    /\ last.resolved_before[KEY_X] = StrObj(<<"default">>)
    /\ RefersToEarlier(KEY_N, KEY_X)
    /\ last.res[KEY_N] = StrObj(<<"default">>)
    /\ _parsed_values.d[KEY_X] = StrObj(<<"default">>)
    /\ _parsed_values.d[KEY_N] = StrObj(<<"default">>)

\* pkinspect.root_package(m) for the module of the last init call
CallerRoot == Split(last.m, ".")[1]

\* The packages $PYKERN_PKCONFIG_LOAD_PATH names in environment env
EnvPackages(env) ==
    IF LOAD_PATH_ENV_NAME \in DOMAIN env /\ env[LOAD_PATH_ENV_NAME] # <<>>
    THEN Split(env[LOAD_PATH_ENV_NAME], LOAD_PATH_SEP) ELSE <<>>

\* The last init call failed the check of the root package
RootNotInLoadPath == ~last.ok /\ last.err = "module root not in load_path"

\* C14: init checks the root package of its caller against the load path as
\* it is before _raw_values is computed: when the root is not in it the call
\* raises and neither the load path nor _raw_values changes, when it is the
\* check passes.  The load path changes in an init call only when the call
\* goes to the sources, and a call that computes _raw_values leaves the load
\* path as it was followed by the packages of $PYKERN_PKCONFIG_LOAD_PATH; so
\* the check passes for a module whose root is named there once an init call
\* has computed _raw_values.
C14_RootCheckedBeforeLoad ==
    (last.op = "init" /\ last.m # MAIN_MODULE) =>
       /\ CallerRoot \notin Range(last.lp_before) =>
             /\ RootNotInLoadPath
             /\ ~last.tried
             /\ _load_path = last.lp_before
             /\ Truthy(_raw_values) = last.raw_before
       /\ CallerRoot \in Range(last.lp_before) => ~RootNotInLoadPath
       /\ ~last.tried => _load_path = last.lp_before
       /\ last.loaded =>
             /\ loaded.lp = _load_path
             /\ loaded.lp_before = last.lp_before
             /\ SubSeq(_load_path, 1, Len(last.lp_before)) = last.lp_before
             /\ Range(_load_path)
                   = Range(last.lp_before) \cup Range(EnvPackages(loaded.environ))
       /\ (last.raw_before /\ CallerRoot \in Range(EnvPackages(loaded.environ)))
             => ~RootNotInLoadPath

\* pkg is named by $PYKERN_PKCONFIG_LOAD_PATH only: the load path was [pykern]
\* before an init call computed _raw_values and [pykern, pkg] after it, and the
\* init call of pkg.mod that comes next returns its parameters
C14_Witness ==
    /\ last.op = "init"
    /\ last.m = PKG_MOD
    /\ last.raw_before
    /\ last.ret = "params"
    /\ hist.inits = 2
    /\ hist.load_at = 1
    /\ EnvPackages(loaded.environ) = <<(<<"pkg">>)>>
    /\ loaded.lp_before = <<THIS_PACKAGE>>
    /\ loaded.lp = <<THIS_PACKAGE, (<<"pkg">>)>>
    /\ _load_path = loaded.lp

====
